---------------------------- MODULE Spec2Model ----------------------------
(***************************************************************************)
(* Model of tensorflow_datasets/text/multi_nli.py: the MultiNLI builder.   *)
(*                                                                         *)
(* Text is a sequence of symbols.  A symbol is one byte of the file        *)
(* ("\t", " ", "\n", "-", an undecodable byte) or a run of ordinary        *)
(* letters kept together ("entailment", "P", ...), so that a field equals  *)
(* the string "-" exactly when it is the one-symbol sequence <<"-">>.      *)
(* A file is the sequence of its physical lines, each without its "\n";    *)
(* iterating the GFile hands each line out with the terminator attached.   *)
(***************************************************************************)
EXTENDS Integers, Sequences, FiniteSets, TLC

VARIABLES
    fs,             \* the extracted archive: split file path -> lines
    root,           \* what dl_manager.download_and_extract returns
    encoderCfg,     \* builder_config.text_encoder_config: "plain" or "subword"
    premiseEnc,     \* self.info.features["premise"].encoder
    hypothesisEnc,  \* self.info.features["hypothesis"].encoder
    labelNames,     \* self.info.features["label"].names
    described,      \* the value the last _info() call returned
    splits,         \* the value the last _split_generators() call returned
    pc,             \* the driver: "idle", "resolving", "iterating"
    gpath,          \* filepath argument of the current _generate_examples
    consumer,       \* who pulls from it: "driver" or "vocab"
    gstatus,        \* "none", "running", "done", "fault"
    fault,          \* the exception that ended a call, "" when none
    idx,            \* enumerate's counter: lines consumed so far
    out,            \* the (idx, example) pairs _generate_examples yielded
    vocab,          \* the strings _vocab_text_gen yielded
    nOpened,        \* GFile objects created so far
    openSet,        \* the ones not yet released
    iterated        \* split files the driver has started to iterate

vars == <<fs, root, encoderCfg, premiseEnc, hypothesisEnc, labelNames,
          described, splits, pc, gpath, consumer, gstatus, fault, idx, out,
          vocab, nOpened, openSet, iterated>>

adapterVars == <<premiseEnc, hypothesisEnc, labelNames>>

----------------------------------------------------------------------------
(* Bounds *)

MaxLines == 3
MaxSampleRows == 2
MaxCalls == 2

----------------------------------------------------------------------------
(* Bytes and text *)

TAB == "\t"
SP == " "
NL == "\n"
DASH == "-"
BAD == "\\xff"

\* bytes.strip() with no argument removes ASCII whitespace.
IsSpace(c) == c \in {SP, TAB, NL}

RECURSIVE LStrip(_)
LStrip(s) ==
    IF s = <<>> THEN s
    ELSE IF IsSpace(Head(s)) THEN LStrip(Tail(s)) ELSE s

RECURSIVE RStrip(_)
RStrip(s) ==
    IF s = <<>> THEN s
    ELSE IF IsSpace(s[Len(s)]) THEN RStrip(SubSeq(s, 1, Len(s) - 1)) ELSE s

\* line.strip(): both ends.
Strip(s) == RStrip(LStrip(s))

\* tf.compat.as_text: UTF-8 decoding, which raises on a malformed byte and
\* maps every other symbol of the model to the same character.
Decodable(s) == \A i \in 1..Len(s) : s[i] # BAD
AsText(s) == s

\* str.split("\t"): always at least one field; "" splits into <<"">>.
RECURSIVE Split(_)
Split(s) ==
    IF \A i \in 1..Len(s) : s[i] # TAB THEN <<s>>
    ELSE LET i == CHOOSE k \in 1..Len(s) :
                      s[k] = TAB /\ \A j \in 1..(k - 1) : s[j] # TAB
         IN <<SubSeq(s, 1, i - 1)>> \o Split(SubSeq(s, i + 1, Len(s)))

\* Python list indexing, 0-based; the caller checks the range.
At(seq, i) == seq[i + 1]

PremiseIdx == 5
HypothesisIdx == 6
LabelIdx == 0
HeaderIdx == 0

\* split_line of lines 162-163 for a raw line handed out by the file iterator.
SplitLine(raw) == Split(AsText(Strip(raw)))

\* The dictionary of lines 169-173.
ExampleOf_swapped(f) ==
    [premise |-> At(f, HypothesisIdx), hypothesis |-> At(f, PremiseIdx),
     label |-> At(f, LabelIdx)]

ExampleOf(f) ==
    [premise |-> At(f, PremiseIdx), hypothesis |-> At(f, HypothesisIdx),
     label |-> At(f, LabelIdx)]

\* " ".join([ex["premise"], ex["hypothesis"]]) of line 115.
VocabText_nospace(ex) == ex.premise \o ex.hypothesis

VocabText(ex) == ex.premise \o <<SP>> \o ex.hypothesis

----------------------------------------------------------------------------
(* Input lines and files *)

RECURSIVE JoinTab(_)
JoinTab(fields) ==
    IF Len(fields) = 1 THEN fields[1]
    ELSE fields[1] \o <<TAB>> \o JoinTab(Tail(fields))

\* A row of n fields in the corpus layout: label, four other columns,
\* premise, hypothesis, and the extra annotator column of the dev files.
\* Rows with different labels carry different sentences.
Row(label, n) ==
    SubSeq(<<label, <<"a">>, <<"b">>, <<"c">>, <<"d">>, <<"P">> \o label,
             <<"H">> \o label, <<"e">>>>, 1, n)

Labels == {<<DASH>>, <<"entailment">>, <<DASH, "x">>}

\* Rows as the corpus has them, rows that are too short, rows with
\* whitespace before the label or after the last field, and rows with a
\* byte that does not decode.
Lines ==
    {JoinTab(Row(l, 7)) : l \in Labels}
    \cup {JoinTab(Row(<<"neutral">>, 8)),
          JoinTab(Row(<<"entailment">>, 4)),
          JoinTab(Row(<<DASH>>, 4)),
          <<DASH>>,
          <<>>,
          <<SP>> \o JoinTab(Row(<<DASH, "x">>, 7)),
          <<TAB>> \o JoinTab(Row(<<"entailment">>, 7)),
          <<TAB>> \o JoinTab(Row(<<DASH>>, 7)),
          <<SP>> \o JoinTab(Row(<<DASH>>, 4)),
          JoinTab(Row(<<"entailment">>, 6)) \o <<TAB>>,
          <<DASH, TAB, BAD>>,
          <<"entailment", TAB, BAD>>,
          JoinTab(Row(<<"entailment">>, 6)) \o <<TAB, BAD>>}

RECURSIVE FilesUpTo(_, _)
FilesUpTo(L, n) ==
    IF n = 0 THEN {<<>>}
    ELSE LET shorter == FilesUpTo(L, n - 1)
         IN shorter \cup {Append(f, l) : f \in {g \in shorter : Len(g) = n - 1},
                                        l \in L}

Files == FilesUpTo(Lines, MaxLines)


SampleLines ==
    {JoinTab(Row(<<"entailment">>, 7)), JoinTab(Row(<<"neutral">>, 8)),
     JoinTab(Row(<<DASH>>, 7)), JoinTab(Row(<<"neutral">>, 4)),
     <<DASH, TAB, BAD>>}

HeaderLine ==
    JoinTab(<<<<"gold_label">>, <<"a">>, <<"b">>, <<"c">>, <<"d">>,
              <<"sentence1">>, <<"sentence2">>>>)

\* Training files of the archive: empty, or the header and a few rows.
SampleFiles ==
    {<<>>} \cup {<<HeaderLine>> \o rows :
                   rows \in FilesUpTo(SampleLines, MaxSampleRows)}

DevFile == <<HeaderLine, JoinTab(Row(<<"contradiction">>, 8))>>

----------------------------------------------------------------------------
(* Paths *)

SEP == "/"

\* os.path.join(a, b) on POSIX.
JoinPath(a, b) ==
    IF b # <<>> /\ Head(b) = SEP THEN b
    ELSE IF a = <<>> \/ a[Len(a)] = SEP THEN a \o b
    ELSE a \o <<SEP>> \o b

MnliPath(dir) == JoinPath(dir, <<"multinli_1.0">>)
TrainPath(dir) == JoinPath(MnliPath(dir), <<"multinli_1.0_train.txt">>)
MatchedValidationPath(dir) ==
    JoinPath(MnliPath(dir), <<"multinli_1.0_dev_matched.txt">>)
MismatchedValidationPath(dir) ==
    JoinPath(MnliPath(dir), <<"multinli_1.0_dev_mismatched.txt">>)

\* The list of lines 138-148.
SplitGeneratorList_devswapped(dir) ==
    << [name |-> "train", filepath |-> TrainPath(dir)],
       [name |-> "validation_matched",
        filepath |-> MismatchedValidationPath(dir)],
       [name |-> "validation_mismatched",
        filepath |-> MatchedValidationPath(dir)] >>

SplitGeneratorList(dir) ==
    << [name |-> "train", filepath |-> TrainPath(dir)],
       [name |-> "validation_matched",
        filepath |-> MatchedValidationPath(dir)],
       [name |-> "validation_mismatched",
        filepath |-> MismatchedValidationPath(dir)] >>

\* Download directories as the download manager hands them out.
Roots == {<<SEP, "data", SEP, "mnli">>, <<"dl">>}

\* Where the extracted archive keeps its three files.
ArchiveTrain(r) == r \o <<SEP, "multinli_1.0", SEP, "multinli_1.0_train.txt">>
ArchiveMatched(r) ==
    r \o <<SEP, "multinli_1.0", SEP, "multinli_1.0_dev_matched.txt">>
ArchiveMismatched(r) ==
    r \o <<SEP, "multinli_1.0", SEP, "multinli_1.0_dev_mismatched.txt">>

----------------------------------------------------------------------------
(* Feature schema and encoders *)

ClassNames == <<"entailment", "neutral", "contradiction">>

NoEncoder == [kind |-> "none", corpus |-> <<>>]
RestoredEncoder == [kind |-> "restored", corpus |-> <<>>]
BuiltEncoder(corpus) == [kind |-> "built", corpus |-> corpus]

\* Text.maybe_build_from_corpus consumes the corpus only when a subword
\* encoder is configured and the feature has no encoder yet.
NeedsCorpus(cfg, enc) == cfg = "subword" /\ enc = NoEncoder

\* Text.maybe_set_encoder keeps an encoder that is already set.
MaybeSetEncoder(old, new) == IF old # NoEncoder THEN old ELSE new

\* The DatasetInfo of lines 92-111, as far as the schema goes.
Info ==
    [features |-> <<"premise", "hypothesis", "label">>,
     names |-> labelNames,
     supervised_keys |-> "None"]

----------------------------------------------------------------------------
(* _generate_examples, one line of the file per step *)

Running == gstatus = "running" /\ gpath \in DOMAIN fs
File == fs[gpath]
HasLine == Running /\ idx < Len(File)
\* What the file iterator hands out for line idx.
RawLine == At(File, idx) \o <<NL>>
Fields == SplitLine(RawLine)

\* Creating the generator and the GFile it reads (line 159).
StartGenerator(path, who) ==
    /\ gpath' = path
    /\ consumer' = who
    /\ idx' = 0
    /\ out' = <<>>
    /\ vocab' = <<>>
    /\ nOpened' = nOpened + 1
    /\ IF path \in DOMAIN fs
       THEN gstatus' = "running" /\ fault' = ""
            /\ openSet' = openSet \cup {nOpened + 1}
       ELSE gstatus' = "fault" /\ fault' = "NotFoundError"
            /\ openSet' = openSet

\* How a call that ended hands control back.
EndOfCall == pc' = IF consumer = "driver" THEN "idle" ELSE pc

Raise(err) ==
    /\ gstatus' = "fault"
    /\ fault' = err
    /\ EndOfCall
    /\ UNCHANGED <<fs, root, encoderCfg, adapterVars, described, splits,
                   gpath, consumer, idx, out, vocab, nOpened, openSet,
                   iterated>>

Continue ==
    /\ idx' = idx + 1
    /\ UNCHANGED <<fs, root, encoderCfg, adapterVars, described, splits, pc,
                   gpath, consumer, gstatus, fault, out, vocab, nOpened,
                   openSet, iterated>>

\* Line 160.
IsHeader_none(i) == FALSE

IsHeader(i) == i = HeaderIdx

\* Lines 160-161.
AtHeader == HasLine /\ IsHeader(idx)

SkipHeader ==
    /\ AtHeader
    /\ Continue

\* Line 162: tf.compat.as_text raises on malformed bytes.
CannotDecode == HasLine /\ ~IsHeader(idx) /\ ~Decodable(Strip(RawLine))

DecodeFault ==
    /\ CannotDecode
    /\ Raise("UnicodeDecodeError")

\* Lines 166-167.
IsNoConsensus_wrongfield(f) == Len(f) > 1 /\ At(f, 1) = <<DASH>>

IsNoConsensus_empty(f) == At(f, LabelIdx) = <<>>

IsNoConsensus(f) == At(f, LabelIdx) = <<DASH>>

AtNoConsensus ==
    /\ HasLine
    /\ ~IsHeader(idx)
    /\ Decodable(Strip(RawLine))
    /\ IsNoConsensus(Fields)

SkipNoConsensus ==
    /\ AtNoConsensus
    /\ Continue

\* Lines 170-171: indexing past the end of split_line.
InRange(f) == Len(f) > PremiseIdx /\ Len(f) > HypothesisIdx

OutOfRange ==
    /\ HasLine
    /\ ~IsHeader(idx)
    /\ Decodable(Strip(RawLine))
    /\ ~IsNoConsensus(Fields)
    /\ ~InRange(Fields)

MalformedFault_skipping ==
    /\ OutOfRange
    /\ Continue

MalformedFault ==
    /\ OutOfRange
    /\ Raise("IndexError")

CanYield ==
    /\ HasLine
    /\ ~IsHeader(idx)
    /\ Decodable(Strip(RawLine))
    /\ ~IsNoConsensus(Fields)
    /\ InRange(Fields)

\* The pair of lines 169-173.
Yielded_counted == <<Len(out) + 1, ExampleOf(Fields)>>

Yielded == <<idx, ExampleOf(Fields)>>

\* Lines 169-173, pulled by the dataset framework.
YieldExample ==
    /\ CanYield
    /\ consumer = "driver"
    /\ out' = Append(out, Yielded)
    /\ idx' = idx + 1
    /\ UNCHANGED <<fs, root, encoderCfg, adapterVars, described, splits, pc,
                   gpath, consumer, gstatus, fault, vocab, nOpened, openSet,
                   iterated>>

\* Lines 113-115: the same yield pulled by _vocab_text_gen, which yields the
\* joined text in its turn.
VocabYield ==
    /\ CanYield
    /\ consumer = "vocab"
    /\ out' = Append(out, Yielded)
    /\ vocab' = Append(vocab, VocabText(Yielded[2]))
    /\ idx' = idx + 1
    /\ UNCHANGED <<fs, root, encoderCfg, adapterVars, described, splits, pc,
                   gpath, consumer, gstatus, fault, nOpened, openSet,
                   iterated>>

\* Line 159: the file iterator is exhausted and the for loop ends.  Nothing
\* in the function closes the GFile.
Exhausted ==
    /\ Running
    /\ idx = Len(File)
    /\ gstatus' = "done"
    /\ EndOfCall
    /\ UNCHANGED <<fs, root, encoderCfg, adapterVars, described, splits,
                   gpath, consumer, fault, idx, out, vocab, nOpened, openSet,
                   iterated>>

\* The GFile of a generator that has ended is unreferenced; the runtime may
\* release the unreferenced ones at any later moment, or not before the
\* process exits.
Referenced == IF gstatus = "running" THEN {nOpened} ELSE {}

Finalize ==
    /\ openSet \ Referenced # {}
    /\ openSet' = openSet \cap Referenced
    /\ UNCHANGED <<fs, root, encoderCfg, adapterVars, described, splits, pc,
                   gpath, consumer, gstatus, fault, idx, out, vocab, nOpened,
                   iterated>>

GeneratorStep ==
    \/ SkipHeader
    \/ DecodeFault
    \/ SkipNoConsensus
    \/ MalformedFault
    \/ YieldExample
    \/ Exhausted
    \/ Finalize

----------------------------------------------------------------------------
(* One call of _generate_examples on any file *)

TypeOK ==
    /\ pc \in {"idle", "resolving", "iterating"}
    /\ gstatus \in {"none", "running", "done", "fault"}
    /\ consumer \in {"driver", "vocab"}
    /\ idx \in 0..(MaxLines + MaxSampleRows + 1)
    /\ openSet \subseteq 1..nOpened

InitGen ==
    /\ root = <<"dl">>
    /\ \E f \in Files : fs = (ArchiveTrain(root) :> f)
    /\ encoderCfg = "plain"
    /\ premiseEnc = NoEncoder
    /\ hypothesisEnc = NoEncoder
    /\ labelNames = ClassNames
    /\ described = <<>>
    /\ splits = SplitGeneratorList(root)
    /\ pc = "iterating"
    /\ gpath = splits[1].filepath
    /\ consumer = "driver"
    /\ gstatus = "running"
    /\ fault = ""
    /\ idx = 0
    /\ out = <<>>
    /\ vocab = <<>>
    /\ nOpened = 1
    /\ openSet = {1}
    /\ iterated = {"train"}

SpecGen == InitGen /\ [][GeneratorStep]_vars

----------------------------------------------------------------------------
(* The builder's methods as the dataset framework calls them *)

\* _info (lines 91-111): builds and returns the DatasetInfo.
Describe_resetting ==
    /\ pc = "idle"
    /\ described' = Info
    /\ premiseEnc' = NoEncoder
    /\ hypothesisEnc' = NoEncoder
    /\ UNCHANGED <<fs, root, encoderCfg, labelNames, splits, pc, gpath,
                   consumer, gstatus, fault, idx, out, vocab, nOpened,
                   openSet, iterated>>

Describe ==
    /\ pc = "idle"
    /\ described' = Info
    /\ UNCHANGED <<fs, root, encoderCfg, adapterVars, splits, pc, gpath,
                   consumer, gstatus, fault, idx, out, vocab, nOpened,
                   openSet, iterated>>

\* _split_generators (lines 117-148) when maybe_build_from_corpus returns
\* without touching the corpus generator: the whole call is one step.
SplitGeneratorsNoBuild ==
    /\ pc = "idle"
    /\ ~NeedsCorpus(encoderCfg, premiseEnc)
    /\ premiseEnc' = MaybeSetEncoder(premiseEnc, premiseEnc)
    /\ hypothesisEnc' = MaybeSetEncoder(hypothesisEnc, premiseEnc)
    /\ splits' = SplitGeneratorList(root)
    /\ fault' = ""
    /\ UNCHANGED <<fs, root, encoderCfg, labelNames, described, pc, gpath,
                   consumer, gstatus, idx, out, vocab, nOpened, openSet,
                   iterated>>

\* Lines 119-131 when the encoder is to be built: the paths are computed and
\* maybe_build_from_corpus starts to pull from _vocab_text_gen(train_path).
VocabPath(dir) == TrainPath(dir)

SplitGeneratorsBuild ==
    /\ pc = "idle"
    /\ NeedsCorpus(encoderCfg, premiseEnc)
    /\ nOpened < MaxCalls
    /\ pc' = "resolving"
    /\ StartGenerator(VocabPath(root), "vocab")
    /\ UNCHANGED <<fs, root, encoderCfg, adapterVars, described, splits,
                   iterated>>

\* Lines 131-148 once the corpus is consumed: the encoder is built, shared
\* with the hypothesis feature, and the three split generators are returned.
SplitGeneratorsReturn ==
    /\ pc = "resolving"
    /\ gstatus = "done"
    /\ premiseEnc' = BuiltEncoder(vocab)
    /\ hypothesisEnc' = MaybeSetEncoder(hypothesisEnc, premiseEnc')
    /\ splits' = SplitGeneratorList(root)
    /\ pc' = "idle"
    /\ UNCHANGED <<fs, root, encoderCfg, labelNames, described, gpath,
                   consumer, gstatus, fault, idx, out, vocab, nOpened,
                   openSet, iterated>>

\* A fault of the corpus generator propagates out of _split_generators.
SplitGeneratorsRaise ==
    /\ pc = "resolving"
    /\ gstatus = "fault"
    /\ pc' = "idle"
    /\ UNCHANGED <<fs, root, encoderCfg, adapterVars, described, splits,
                   gpath, consumer, gstatus, fault, idx, out, vocab, nOpened,
                   openSet, iterated>>

\* The framework iterates _generate_examples(**gen_kwargs) of a split that
\* _split_generators returned (line 150).
IterateSplit ==
    /\ pc = "idle"
    /\ nOpened < MaxCalls
    /\ \E i \in 1..Len(splits) :
          /\ StartGenerator(splits[i].filepath, "driver")
          /\ iterated' = iterated \cup {splits[i].name}
          /\ pc' = IF splits[i].filepath \in DOMAIN fs
                   THEN "iterating" ELSE "idle"
    /\ UNCHANGED <<fs, root, encoderCfg, adapterVars, described, splits>>

Init ==
    /\ root \in Roots
    /\ \E f \in SampleFiles, missing \in BOOLEAN :
          fs = IF missing
               THEN (ArchiveTrain(root) :> f) @@ (ArchiveMatched(root) :> DevFile)
               ELSE (ArchiveTrain(root) :> f) @@ (ArchiveMatched(root) :> DevFile)
                    @@ (ArchiveMismatched(root) :> DevFile)
    /\ \/ encoderCfg = "plain" /\ premiseEnc = NoEncoder
       \/ encoderCfg = "subword" /\ premiseEnc \in {NoEncoder, RestoredEncoder}
    /\ hypothesisEnc = premiseEnc
    /\ labelNames = ClassNames
    /\ described = <<>>
    /\ splits = <<>>
    /\ pc = "idle"
    /\ gpath = <<>>
    /\ consumer = "driver"
    /\ gstatus = "none"
    /\ fault = ""
    /\ idx = 0
    /\ out = <<>>
    /\ vocab = <<>>
    /\ nOpened = 0
    /\ openSet = {}
    /\ iterated = {}

Next ==
    \/ Describe
    \/ SplitGeneratorsNoBuild
    \/ SplitGeneratorsBuild
    \/ SplitGeneratorsReturn
    \/ SplitGeneratorsRaise
    \/ IterateSplit
    \/ VocabYield
    \/ GeneratorStep

Spec == Init /\ [][Next]_vars

----------------------------------------------------------------------------
(* Vocabulary of the properties *)

\* Row i of the file being read (0-based physical line number), its bytes
\* as the file iterator hands them out, and the data rows.
PhysicalLine(i) == At(File, i) \o <<NL>>
DataRows == 1..(Len(File) - 1)

\* The fields of row i: as the builder computes them, with only trailing
\* whitespace removed, and with nothing removed but the line terminator.
CodeFields(i) == Split(Strip(PhysicalLine(i)))
TrailingFields(i) == Split(RStrip(PhysicalLine(i)))
RawFields(i) == Split(At(File, i))

RowDecodes(i) == \A k \in 1..Len(At(File, i)) : At(File, i)[k] # BAD

EmittedIdx == {out[k][1] : k \in DOMAIN out}
EmittedFor(i) == {k \in DOMAIN out : out[k][1] = i}
FaultedAt(i) == gstatus = "fault" /\ idx = i
AboutToRead(i) == gstatus = "running" /\ idx = i

ClassNameTexts == {<<"entailment">>, <<"neutral">>, <<"contradiction">>}

----------------------------------------------------------------------------
(* C1 *)

\* C1, as stated: a data row whose first tab-separated field is exactly "-"
\* yields no Example, whatever else the row holds, and the iteration goes on
\* to the next row (it does not end in a fault at that row).
C1_DashRowAlwaysPassed ==
    \A i \in DataRows :
        RawFields(i)[1] = <<DASH>> => i \notin EmittedIdx /\ ~FaultedAt(i)

\* C1, amended: a data row whose first tab-separated field is exactly "-"
\* never yields an Example; when the row decodes as text the iteration goes
\* on to the next row, and when it does not the call ends there with the
\* decode fault, the marker not having been looked at.
C1_DashRowSkipped ==
    \A i \in DataRows :
        RawFields(i)[1] = <<DASH>> =>
            /\ i \notin EmittedIdx
            /\ FaultedAt(i) => ~RowDecodes(i) /\ fault = "UnicodeDecodeError"
            /\ AboutToRead(i) /\ RowDecodes(i) =>
                  AtNoConsensus /\ ~OutOfRange /\ ~CanYield

\* A well-formed "-" row was passed over and the row after it was emitted.
C1_Witness ==
    \E i \in DataRows :
        /\ RawFields(i)[1] = <<DASH>>
        /\ Len(RawFields(i)) > HypothesisIdx
        /\ i + 1 \in EmittedIdx

----------------------------------------------------------------------------
(* C2 *)

\* C2: no pair is ever emitted for line 0, whatever the line holds, and the
\* call never ends in a fault at line 0: with a first line to read, the one
\* thing the generator can do is skip it.
C2_HeaderSkipped ==
    /\ HeaderIdx \notin EmittedIdx
    /\ ~FaultedAt(HeaderIdx)
    /\ AboutToRead(HeaderIdx) /\ File # <<>> =>
          AtHeader /\ ~CannotDecode /\ ~AtNoConsensus /\ ~OutOfRange /\ ~CanYield

\* The first line was a well-formed data row with a class label, and the
\* generator has gone past it and emitted the row after it.
C2_Witness ==
    /\ File # <<>>
    /\ Len(RawFields(HeaderIdx)) > HypothesisIdx
    /\ RawFields(HeaderIdx)[1] = <<"entailment">>
    /\ 1 \in EmittedIdx

----------------------------------------------------------------------------
(* C3 *)

\* C3, as stated: with the fields of a data row taken from the line with only
\* trailing whitespace removed, a row of text whose field 0 is not "-" and
\* that has at least 7 fields yields exactly one Example, made of fields 5, 6
\* and 0.
C3_TrailingStripFields ==
    \A i \in DataRows :
        LET f == TrailingFields(i) IN
        RowDecodes(i) /\ At(f, LabelIdx) # <<DASH>> /\ Len(f) > HypothesisIdx =>
            /\ ~FaultedAt(i)
            /\ i < idx =>
                  /\ Cardinality(EmittedFor(i)) = 1
                  /\ \A k \in EmittedFor(i) :
                        out[k][2] = [premise |-> f[6], hypothesis |-> f[7],
                                     label |-> f[1]]

\* C3, amended: with the fields of a data row taken from the line with
\* leading and trailing whitespace removed, a row that decodes as text,
\* whose field 0 is not "-" and that has at least 7 fields yields exactly one
\* Example, made of fields 5, 6 and 0, the label being whatever text field 0
\* holds.
C3_StrippedFields ==
    \A i \in DataRows :
        LET f == CodeFields(i) IN
        RowDecodes(i) /\ At(f, LabelIdx) # <<DASH>> /\ Len(f) > HypothesisIdx =>
            /\ ~FaultedAt(i)
            /\ i < idx =>
                  /\ Cardinality(EmittedFor(i)) = 1
                  /\ \A k \in EmittedFor(i) :
                        out[k][2] = [premise |-> f[6], hypothesis |-> f[7],
                                     label |-> f[1]]

\* A row with leading whitespace and a label outside the class names has
\* been emitted.
C3_Witness ==
    \E i \in DataRows :
        /\ i \in EmittedIdx
        /\ IsSpace(Head(At(File, i)))
        /\ CodeFields(i)[1] \notin ClassNameTexts

----------------------------------------------------------------------------
(* C4 *)

\* C4: the row_index of every emitted pair is the 0-based physical line
\* number of the row the Example was built from, a data row already read;
\* the emitted indices are strictly increasing, hence distinct, and >= 1.
C4_RowIndexFidelity ==
    \A k \in DOMAIN out :
        LET i == out[k][1] IN
        /\ i \in DataRows
        /\ i >= 1
        /\ i < idx
        /\ Len(CodeFields(i)) > HypothesisIdx
        /\ out[k][2] = [premise |-> CodeFields(i)[6],
                        hypothesis |-> CodeFields(i)[7],
                        label |-> CodeFields(i)[1]]
        /\ \A l \in DOMAIN out : k < l => out[k][1] < out[l][1]

\* The one emitted pair carries index 2: the header and a skipped "-" row
\* each used up an index.
C4_Witness ==
    /\ gstatus = "done"
    /\ Len(out) = 1
    /\ out[1][1] = 2
    /\ CodeFields(1)[1] = <<DASH>>

----------------------------------------------------------------------------
(* C5 *)

\* C5, as stated: a data row of text with fewer than 7 fields (the line's
\* trailing whitespace removed) that is not marked "-" is never passed over;
\* the call ends at it with the IndexError fault, and neither it nor any
\* later row yields an Example.
C5_ShortRowIndexError ==
    \A i \in DataRows :
        LET f == TrailingFields(i) IN
        RowDecodes(i) /\ Len(f) <= HypothesisIdx /\ At(f, LabelIdx) # <<DASH>> =>
            /\ idx <= i
            /\ FaultedAt(i) => fault = "IndexError"
            /\ \A k \in DOMAIN out : out[k][1] < i

\* C5, amended: a data row that decodes as text and, once leading and
\* trailing whitespace is removed, has fewer than 7 fields and a field 0
\* other than "-" is never passed over; the call ends at it with the
\* IndexError fault, and neither it nor any later row yields an Example.
C5_ShortRowFatal ==
    \A i \in DataRows :
        LET f == CodeFields(i) IN
        RowDecodes(i) /\ Len(f) <= HypothesisIdx /\ At(f, LabelIdx) # <<DASH>> =>
            /\ idx <= i
            /\ FaultedAt(i) => fault = "IndexError"
            /\ AboutToRead(i) => OutOfRange /\ ~AtNoConsensus /\ ~CanYield
            /\ \A k \in DOMAIN out : out[k][1] < i

\* The call ended with IndexError at a four-field row, with a well-formed
\* row of the file still unread.
C5_Witness ==
    /\ fault = "IndexError"
    /\ FaultedAt(1)
    /\ Len(CodeFields(1)) = 4
    /\ Len(File) = 3
    /\ Len(CodeFields(2)) > HypothesisIdx
    /\ out = <<>>

----------------------------------------------------------------------------
(* C6 *)

\* C6, as stated: every emitted Example has one of the three class names as
\* its label.
C6_LabelInClassNames ==
    \A k \in DOMAIN out : out[k][2].label \in ClassNameTexts

\* C6, amended: every emitted Example has as its label the text of field 0
\* of its row, which is never the marker "-" but need not be a class name.
C6_LabelNeverDash ==
    \A k \in DOMAIN out :
        /\ out[k][2].label # <<DASH>>
        /\ out[k][1] \in DataRows
        /\ out[k][2].label = CodeFields(out[k][1])[1]

\* An Example whose label is none of the class names has been emitted.
C6_Witness ==
    \E k \in DOMAIN out : out[k][2].label \notin ClassNameTexts

----------------------------------------------------------------------------
(* C7 *)

\* C7: once a call of _generate_examples has ended, by exhausting the file or
\* by a fault, the file handle it opened is closed.
C7_HandleClosedAtEnd ==
    gstatus \in {"done", "fault"} => nOpened \notin openSet

----------------------------------------------------------------------------
(* C8 *)

\* C8: what _split_generators returns is the three splits train,
\* validation_matched, validation_mismatched, in that order, with the paths
\* R/multinli_1.0/multinli_1.0_train.txt, ..._dev_matched.txt and
\* ..._dev_mismatched.txt under the download root R.
C8_SplitPaths ==
    splits # <<>> =>
        splits =
          << [name |-> "train",
              filepath |-> root \o <<SEP, "multinli_1.0", SEP,
                                     "multinli_1.0_train.txt">>],
             [name |-> "validation_matched",
              filepath |-> root \o <<SEP, "multinli_1.0", SEP,
                                     "multinli_1.0_dev_matched.txt">>],
             [name |-> "validation_mismatched",
              filepath |-> root \o <<SEP, "multinli_1.0", SEP,
                                     "multinli_1.0_dev_mismatched.txt">>] >>

\* _split_generators has returned for the download root /data/mnli.
C8_Witness ==
    /\ Len(splits) = 3
    /\ root = <<SEP, "data", SEP, "mnli">>

----------------------------------------------------------------------------
(* C9 *)

\* C9, as stated: no call changes the adapter's state: the label names and
\* the encoders of the premise and hypothesis features stay as they were.
C9_Stateless == [][adapterVars' = adapterVars]_vars

\* C9, amended: _info and _generate_examples never change the adapter's
\* state, and no call changes the label names or an encoder that is set;
\* the one change is made by _split_generators when it returns after
\* building the encoder from the training corpus: both features then hold
\* that encoder.
C9_OnlyResolveSetsEncoders ==
    [][ /\ labelNames' = labelNames
        /\ premiseEnc # NoEncoder => premiseEnc' = premiseEnc
        /\ hypothesisEnc # NoEncoder => hypothesisEnc' = hypothesisEnc
        /\ adapterVars' # adapterVars =>
              /\ pc = "resolving" /\ pc' = "idle"
              /\ encoderCfg = "subword"
              /\ premiseEnc' = BuiltEncoder(vocab)
              /\ hypothesisEnc' = premiseEnc'
              /\ splits' # <<>> ]_vars

\* _split_generators has built an encoder and both features hold it.
C9_Witness ==
    /\ premiseEnc # NoEncoder
    /\ premiseEnc # RestoredEncoder
    /\ premiseEnc.corpus # <<>>
    /\ hypothesisEnc = premiseEnc

----------------------------------------------------------------------------
(* C10 *)

\* C10: what _vocab_text_gen yields is, one for one and in order,
\* premise + " " + hypothesis of the Examples _generate_examples yields for
\* the same file, none of them from the header or from a "-" row; the file
\* is the training file, and it is read inside _split_generators before any
\* split has been iterated.
C10_VocabReadThrough ==
    consumer = "vocab" =>
        /\ Len(vocab) = Len(out)
        /\ \A k \in DOMAIN out :
              /\ vocab[k] = out[k][2].premise \o <<SP>> \o out[k][2].hypothesis
              /\ out[k][1] \in DataRows
              /\ CodeFields(out[k][1])[1] # <<DASH>>
        /\ gpath = ArchiveTrain(root)
        /\ gstatus = "running" => pc = "resolving" /\ iterated = {}

\* The corpus of a training file with two different good rows has been read
\* to its end: two different texts.
C10_Witness ==
    /\ consumer = "vocab"
    /\ gstatus = "done"
    /\ Len(vocab) = 2
    /\ vocab[1] # vocab[2]

=============================================================================
